---------------------------- MODULE Spec2Model ----------------------------
(***************************************************************************)
(* AVM2 function objects (core/src/avm2/function.rs): Executable,          *)
(* FunctionObject, the class derivation protocol from_class, and the       *)
(* TObject operations FunctionObject implements.                           *)
(*                                                                         *)
(* The heap is a sequence of object records; an object reference is its    *)
(* index.  Every operation is one action; it leaves in `ret` what it       *)
(* returned and in `log` the events of that one operation, in order: each  *)
(* run of an executable (with the borrows of GcCells held at that instant) *)
(* and each set_interfaces call.                                           *)
(***************************************************************************)
EXTENDS Integers, Sequences, FiniteSets, TLC

VARIABLES heap, ret, log, timers

vars == <<heap, ret, log, timers>>

(***************************************************************************)
(* Bounds of the model: the cells of the heap in the runs of class         *)
(* derivation, and in the runs of function values.                         *)
(***************************************************************************)
MaxObj == 8

MaxFn == 7

(***************************************************************************)
(* Option::None for an object reference; Value::Undefined is modelled by   *)
(* the same number, since neither is an object (as_object fails on it).    *)
(***************************************************************************)
None == 0

Undefined == None

NoScope == "NoScope"

NoClass == [tag |-> "NoClass", class |-> "-", scope |-> NoScope]

Refs == 1..Len(heap)

OptRefs == {None} \cup Refs

(***************************************************************************)
(* The objects the global bootstrap supplies: prototypes().function and    *)
(* prototypes().class, which from_class reads, and the object holding the  *)
(* bindings of the defining scope.  They are the first cells of the heap.  *)
(***************************************************************************)
FnProto == 1

ClassConstrProto == 2

ScopeObject == 3

(***************************************************************************)
(* Methods.  A Method is Native (a Rust function) or Entry (bytecode).     *)
(* What a body does when run is outside function.rs; the bodies here are   *)
(* three representatives: return the receiver, return undefined, throw.    *)
(* The initializers of the classes are methods of their own.               *)
(***************************************************************************)
NativeMethods == {"nfThis", "nfThrow", "nfIinit", "nfCinit"}

EntryMethods == {"bcUndef", "bcNoActivation", "bcIinit", "bcCinit"}

Methods == NativeMethods \cup EntryMethods

\* The methods plain functions are made from.
FunctionMethods == {"nfThis", "bcUndef"}

ScopeIds == {"S1"}

OptScopes == {NoScope} \cup ScopeIds

InterfaceNames == {"I1", "I2"}

PropNames == {"prototype", "constructor"} \cup InterfaceNames

ArgLists == {<<>>, <<1>>}

(***************************************************************************)
(* Class metadata (read only during derivation): the declared interface    *)
(* names and the two initializer methods.                                  *)
(***************************************************************************)
Classes == {"K0", "K1", "K2"}

ClassInterfaces(c) ==
    CASE c = "K0" -> <<>>
      [] c = "K1" -> <<"I1">>
      [] c = "K2" -> <<"I1", "I2">>

\* Class::instance_init
InstanceInit(c) == IF c = "K1" THEN "nfIinit" ELSE "bcIinit"

\* Class::class_init
ClassInit(c) == IF c = "K2" THEN "nfCinit" ELSE "bcCinit"

(***************************************************************************)
(* Executable                                                              *)
(***************************************************************************)
NoExec == [kind |-> "None", method |-> "-", scope |-> NoScope, reciever |-> None]

\* Executable::from_method: a Native method keeps only the function and the
\* receiver; an Entry method allocates a BytecodeExecutable with all three.
ExecFromMethod(method, scope, reciever) ==
    IF method \in NativeMethods
    THEN [kind |-> "Native", method |-> method, scope |-> NoScope, reciever |-> reciever]
    ELSE [kind |-> "Action", method |-> method, scope |-> scope, reciever |-> reciever]

\* Option::or
OptOr(a, b) == IF a # None THEN a ELSE b

\* A mutation of the receiver rule: the caller's receiver wins.
EffectiveRecieverCallerWins(exec, unbound_reciever) == OptOr(unbound_reciever, exec.reciever)

\* A mutation: exec hands over the bound receiver only.
EffectiveRecieverBoundOnly(exec, unbound_reciever) == exec.reciever

\* The receiver exec runs with: reciever.or(unbound_reciever), both variants.
EffectiveReciever(exec, unbound_reciever) == OptOr(exec.reciever, unbound_reciever)

(***************************************************************************)
(* Borrows of GcCells held at an instant: objects under a write lock,      *)
(* objects under a read lock, scopes under a write lock, classes under a   *)
(* read lock.                                                              *)
(***************************************************************************)
NoLocks == [wobj |-> {}, robj |-> {}, wscope |-> {}, rclass |-> {}]

AddRead(held, o) == [held EXCEPT !.robj = @ \cup {o}]

AddWrite(held, o) == [held EXCEPT !.wobj = @ \cup {o}]

AddScopeWrite(held, s) == [held EXCEPT !.wscope = @ \cup {s}]

AddClassRead(held, c) == [held EXCEPT !.rclass = @ \cup {c}]

(***************************************************************************)
(* Events of one operation.                                                *)
(***************************************************************************)
RunEvent(exec, recv, args, held) ==
    [ev |-> "run", exec |-> exec, recv |-> recv, args |-> args, held |-> held, obj |-> None]

\* Activation::from_method was given recv and failed: the body did not run.
NotEnteredEvent(exec, recv, args, held) ==
    [ev |-> "not_entered", exec |-> exec, recv |-> recv, args |-> args, held |-> held,
     obj |-> None]

SetInterfacesEvent(o) ==
    [ev |-> "set_interfaces", exec |-> NoExec, recv |-> None, args |-> <<>>,
     held |-> NoLocks, obj |-> o]

(***************************************************************************)
(* Results: Result<Value, Error> together with the events of the call.     *)
(***************************************************************************)
Ok(v, events) == [ok |-> TRUE, err |-> "", val |-> v, events |-> events]

Err(e, events) == [ok |-> FALSE, err |-> e, val |-> Undefined, events |-> events]

\* What the body of a method returns when it runs with receiver recv.
BodyResult(method, recv, events) ==
    CASE method = "nfThis" -> Ok(recv, events)
      [] method = "nfThrow" -> Err("thrown", events)
      [] OTHER -> Ok(Undefined, events)

\* Activation::from_method fails for a method whose body cannot be entered.
ActivationFails(method) == method = "bcNoActivation"

\* Executable::exec
Exec(exec, unbound_reciever, arguments, held) ==
    LET reciever == EffectiveReciever(exec, unbound_reciever)
        run == <<RunEvent(exec, reciever, arguments, held)>>
    IN  IF exec.kind = "Native"
        THEN BodyResult(exec.method, reciever, run)
        ELSE IF ActivationFails(exec.method)
             THEN Err("activation", <<NotEnteredEvent(exec, reciever, arguments, held)>>)
             ELSE BodyResult(exec.method, reciever, run)

(***************************************************************************)
(* The trait/slot table every object delegates to (ScriptObjectData).      *)
(***************************************************************************)
Absent == [k |-> "absent", v |-> None, get |-> NoExec, set |-> NoExec]

ValProp(v) == [k |-> "val", v |-> v, get |-> NoExec, set |-> NoExec]

VirtProp(get, set) == [k |-> "virt", v |-> None, get |-> get, set |-> set]

\* ScriptObjectData::base_new
BaseNew(proto, class) ==
    [proto |-> proto, class |-> class, props |-> [n \in PropNames |-> Absent],
     ifaces |-> <<>>]

\* ReturnValue: an immediate value, or the deferred run of an accessor.
Immediate(v) == [imm |-> TRUE, val |-> v, exec |-> NoExec, recv |-> None, args |-> <<>>]

ResultOf(exec, recv, args) ==
    [imm |-> FALSE, val |-> Undefined, exec |-> exec, recv |-> recv, args |-> args]

\* ReturnValue::resolve
Resolve(rv, held) ==
    IF rv.imm THEN Ok(rv.val, <<>>) ELSE Exec(rv.exec, rv.recv, rv.args, held)

\* ScriptObjectData::get_property_local
BaseGetPropertyLocal(base, reciever, name) ==
    LET p == base.props[name]
    IN  CASE p.k = "val" -> Immediate(p.v)
          [] p.k = "virt" /\ p.get # NoExec -> ResultOf(p.get, reciever, <<>>)
          [] OTHER -> Immediate(Undefined)

\* ScriptObjectData::set_property_local and init_property_local: the new
\* table and the ReturnValue (a setter to run, if the property has one).
BaseSetPropertyLocal(base, reciever, name, value) ==
    LET p == base.props[name]
    IN  CASE p.k = "virt" /\ p.set # NoExec ->
                [base |-> base, rv |-> ResultOf(p.set, reciever, <<value>>)]
          [] p.k = "virt" ->
                [base |-> base, rv |-> Immediate(Undefined)]
          [] OTHER ->
                [base |-> [base EXCEPT !.props[name] = ValProp(value)],
                 rv |-> Immediate(Undefined)]

\* ScriptObjectData::install_dynamic_property, when it succeeds.
BaseInstallDynamicProperty(base, name, value) ==
    [base EXCEPT !.props[name] = ValProp(value)]

\* ScriptObjectData::set_interfaces
BaseSetInterfaces(base, iface_list) == [base EXCEPT !.ifaces = iface_list]

(***************************************************************************)
(* FunctionObjectData { base, exec }.  `variant` tells a FunctionObject    *)
(* from a ScriptObject; `origin` records the operation that allocated the  *)
(* object (history, read by no operation).                                 *)
(***************************************************************************)
FunctionObjectData(base, exec, origin) ==
    [variant |-> "FunctionObject", base |-> base, exec |-> exec, origin |-> origin]

ScriptObject(base, origin) ==
    [variant |-> "ScriptObject", base |-> base, exec |-> NoExec, origin |-> origin]

\* GcCell::allocate: the new heap; the new reference is its length.
Allocate(h, data) == Append(h, data)

FunctionObjects == {o \in Refs : heap[o].variant = "FunctionObject"}

(***************************************************************************)
(* FunctionObject: property access.                                        *)
(***************************************************************************)
\* The borrows held when get_property_local resolves its ReturnValue:
\* drop(read) has run, so only the caller's.
HeldAtGetResolve(o, held) == held

\* A mutation: the write guard is still alive when the setter is resolved.
HeldAtSetResolveNoDrop(o, held) == AddWrite(held, o)

\* The borrows held when set_property_local / init_property_local resolve
\* their ReturnValue: drop(write) has run, so only the caller's.
HeldAtSetResolve(o, held) == held

\* FunctionObject::get_property_local
GetPropertyLocal(h, o, reciever, name, held) ==
    LET rv == BaseGetPropertyLocal(h[o].base, reciever, name)
    IN  Resolve(rv, HeldAtGetResolve(o, held))

\* A mutation: set_property_local binds the function to the receiver of
\* the property operation.
SetPropertyLocalRebinds(h, o, reciever, name, value, held) ==
    LET w == BaseSetPropertyLocal(h[o].base, reciever, name, value)
        res == Resolve(w.rv, HeldAtSetResolve(o, held))
    IN  [heap |-> [h EXCEPT ![o].base = w.base, ![o].exec.reciever = reciever],
         res |-> IF res.ok THEN Ok(Undefined, res.events) ELSE res]

\* FunctionObject::set_property_local: the new heap and the result.
SetPropertyLocal(h, o, reciever, name, value, held) ==
    LET w == BaseSetPropertyLocal(h[o].base, reciever, name, value)
        res == Resolve(w.rv, HeldAtSetResolve(o, held))
    IN  [heap |-> [h EXCEPT ![o].base = w.base],
         res |-> IF res.ok THEN Ok(Undefined, res.events) ELSE res]

\* FunctionObject::init_property_local
InitPropertyLocal(h, o, reciever, name, value, held) ==
    LET w == BaseSetPropertyLocal(h[o].base, reciever, name, value)
        res == Resolve(w.rv, HeldAtSetResolve(o, held))
    IN  [heap |-> [h EXCEPT ![o].base = w.base],
         res |-> IF res.ok THEN Ok(Undefined, res.events) ELSE res]

\* TObject::get_property: the object's own property, else its prototype's.
RECURSIVE GetProperty(_, _, _, _, _)
GetProperty(h, o, reciever, name, held) ==
    LET p == h[o].base.props[name]
        has_no_getter == p.k = "virt" /\ p.set # NoExec /\ p.get = NoExec
    IN  IF p.k # "absent" /\ ~has_no_getter
        THEN GetPropertyLocal(h, o, reciever, name, held)
        ELSE IF h[o].base.proto # None
             THEN GetProperty(h, h[o].base.proto, reciever, name, held)
             ELSE Ok(Undefined, <<>>)

\* FunctionObject::install_dynamic_property; `ok` is whether the table
\* accepts the property.
InstallDynamicProperty(h, o, name, value, ok) ==
    IF ok
    THEN [ok |-> TRUE, heap |-> [h EXCEPT ![o].base = BaseInstallDynamicProperty(@, name, value)]]
    ELSE [ok |-> FALSE, heap |-> h]

\* FunctionObject::set_interfaces
SetInterfaces(h, o, iface_list) == [h EXCEPT ![o].base = BaseSetInterfaces(@, iface_list)]

\* FunctionObject::interfaces
Interfaces(h, o) == h[o].base.ifaces

(***************************************************************************)
(* FunctionObject: call, construct, derive.                                *)
(***************************************************************************)
\* The borrows held while the executable runs: the guard of self.0.read()
\* in the `if let` scrutinee lives to the end of the `if let`.
HeldDuringCall(f, held) == AddRead(held, f)

\* The else branch of FunctionObject::call.
NotCallable(events) == Err("Not a callable function!", events)

\* FunctionObject::call
Call(h, f, reciever, arguments, held) ==
    IF h[f].exec # NoExec
    THEN Exec(h[f].exec, reciever, arguments, HeldDuringCall(f, held))
    ELSE NotCallable(<<>>)

\* A mutation: construct copies the constructing object's executable.
ConstructDataCopyExec(h, f) ==
    FunctionObjectData(BaseNew(f, NoClass), h[f].exec, "construct")

\* A mutation: the new object has no prototype link.
ConstructDataUnlinked(h, f) == FunctionObjectData(BaseNew(None, NoClass), NoExec, "construct")

\* FunctionObject::construct: the data of the new object.
ConstructData(h, f) == FunctionObjectData(BaseNew(f, NoClass), NoExec, "construct")

InstancePrototype(class, scope) ==
    [tag |-> "InstancePrototype", class |-> class, scope |-> scope]

ClassConstructor(class, scope) ==
    [tag |-> "ClassConstructor", class |-> class, scope |-> scope]

\* FunctionObject::derive: the data of the new object.
DeriveData(h, f, class, scope) ==
    FunctionObjectData(BaseNew(f, InstancePrototype(class, scope)), NoExec, "derive")

\* A mutation: the derived object carries no class marker.
DeriveAnyUnmarked(h, o, class, scope) ==
    IF h[o].variant = "FunctionObject"
    THEN FunctionObjectData(BaseNew(o, NoClass), NoExec, "derive")
    ELSE ScriptObject(BaseNew(o, NoClass), "derive")

\* derive of any object: a ScriptObject derives a ScriptObject the same way.
DeriveAny(h, o, class, scope) ==
    IF h[o].variant = "FunctionObject"
    THEN DeriveData(h, o, class, scope)
    ELSE ScriptObject(BaseNew(o, InstancePrototype(class, scope)), "derive")

\* ScriptObject::bare_object
BareObject == ScriptObject(BaseNew(None, NoClass), "bare_object")

(***************************************************************************)
(* FunctionObject: from_method, from_builtin, from_builtin_constr.         *)
(***************************************************************************)
\* FunctionObject::from_method: the data of the new object.
FromMethodData(method, scope, fn_proto, reciever) ==
    FunctionObjectData(BaseNew(fn_proto, NoClass),
                       ExecFromMethod(method, scope, reciever), "from_method")

\* A mutation: from_builtin leaves the new object without executable.
FromBuiltinDataNoExec(nf, fn_proto) ==
    FunctionObjectData(BaseNew(fn_proto, NoClass), NoExec, "from_builtin")

\* FunctionObject::from_builtin: the data of the new object.
FromBuiltinData(nf, fn_proto) ==
    FunctionObjectData(BaseNew(fn_proto, NoClass),
                       ExecFromMethod(nf, NoScope, None), "from_builtin")

\* A mutation: a failure of the second installation is swallowed.
BuiltinBackLinkUnchecked(h, base, prototype, ok1, ok2) ==
    LET i1 == InstallDynamicProperty(h, base, "prototype", prototype, ok1)
        i2 == InstallDynamicProperty(i1.heap, prototype, "constructor", base, ok2)
    IN  IF ~i1.ok THEN [ok |-> FALSE, err |-> "install prototype", heap |-> i1.heap]
        ELSE [ok |-> TRUE, err |-> "", heap |-> i2.heap]

\* from_builtin_constr: base.prototype = prototype, then
\* prototype.constructor = base, each installation propagating its error.
BuiltinBackLink(h, base, prototype, ok1, ok2) ==
    LET i1 == InstallDynamicProperty(h, base, "prototype", prototype, ok1)
        i2 == InstallDynamicProperty(i1.heap, prototype, "constructor", base, ok2)
    IN  IF ~i1.ok THEN [ok |-> FALSE, err |-> "install prototype", heap |-> i1.heap]
        ELSE IF ~i2.ok THEN [ok |-> FALSE, err |-> "install constructor", heap |-> i2.heap]
        ELSE [ok |-> TRUE, err |-> "", heap |-> i2.heap]

\* FunctionObject::from_builtin_constr: the new heap and Result<Object, Error>.
FromBuiltinConstr(h, constr, prototype, fn_proto, ok1, ok2) ==
    LET h1 == Allocate(h, FunctionObjectData(BaseNew(fn_proto, NoClass),
                              ExecFromMethod(constr, NoScope, None),
                              "from_builtin_constr"))
        base == Len(h1)
        linked == BuiltinBackLink(h1, base, prototype, ok1, ok2)
    IN  [ok |-> linked.ok, err |-> linked.err, heap |-> linked.heap,
         val |-> IF linked.ok THEN base ELSE None]

(***************************************************************************)
(* FunctionObject::from_class                                              *)
(***************************************************************************)
\* Scope::resolve answered None: the name is not bound.
NotBound ==
    [ok |-> TRUE, err |-> "", some |-> FALSE, val |-> Undefined, events |-> <<>>]

\* Scope::resolve answered with the binding that get_property read.
Bound(got) ==
    [ok |-> got.ok, err |-> got.err, some |-> got.ok, val |-> got.val,
     events |-> got.events]

\* Scope::resolve on a scope whose bindings are the properties of
\* ScopeObject: None when the name is not bound, else the bound value, read
\* through get_property (which runs a getter).
ScopeResolve(h, scope, name, held) ==
    IF h[ScopeObject].base.props[name].k = "absent"
    THEN NotBound
    ELSE Bound(GetProperty(h, ScopeObject, ScopeObject, name, held))

\* A mutation: the new prototype is allocated before the superclass
\* prototype is coerced to an object.
DerivedProtoAllocatesFirst(h, class, scope, got) ==
    IF ~got.ok
    THEN [ok |-> FALSE, err |-> got.err, heap |-> h, proto |-> None,
          events |-> got.events]
    ELSE IF got.val = Undefined
    THEN [ok |-> FALSE, err |-> "Could not resolve superclass prototype",
          heap |-> Allocate(h, BareObject), proto |-> None, events |-> got.events]
    ELSE [ok |-> TRUE, err |-> "",
          heap |-> Allocate(h, DeriveAny(h, got.val, class, scope)),
          proto |-> Len(h) + 1, events |-> got.events]

\* The instance prototype derived from what the base class's "prototype"
\* property gave: its error, a value that is no object, or the object that
\* derives the new prototype.
DerivedProto(h, class, scope, got) ==
    IF ~got.ok
    THEN [ok |-> FALSE, err |-> got.err, heap |-> h, proto |-> None,
          events |-> got.events]
    ELSE IF got.val = Undefined
    THEN [ok |-> FALSE, err |-> "Could not resolve superclass prototype",
          heap |-> h, proto |-> None, events |-> got.events]
    ELSE [ok |-> TRUE, err |-> "",
          heap |-> Allocate(h, DeriveAny(h, got.val, class, scope)),
          proto |-> Len(h) + 1, events |-> got.events]

\* A mutation: a class without base class is refused.
ClassProtoRequiresBase(h, class, base_class, scope, held) ==
    IF base_class # None
    THEN DerivedProto(h, class, scope,
                      GetProperty(h, base_class, base_class, "prototype", held))
    ELSE [ok |-> FALSE, err |-> "Could not resolve superclass prototype",
          heap |-> h, proto |-> None, events |-> <<>>]

\* Step 1: the instance prototype.  With a base class: its "prototype"
\* property, coerced to an object, derives the new prototype.  Without:
\* a bare object.
ClassProto(h, class, base_class, scope, held) ==
    IF base_class # None
    THEN DerivedProto(h, class, scope,
                      GetProperty(h, base_class, base_class, "prototype", held))
    ELSE [ok |-> TRUE, err |-> "", heap |-> Allocate(h, BareObject),
          proto |-> Len(h) + 1, events |-> <<>>]

\* A mutation: without a scope the name is looked up in the global scope.
LookupInterfaceGlobal(h, scope, name, held) ==
    ScopeResolve(h, "S1", name, AddScopeWrite(held, "S1"))

\* The lookup of one interface name: scope.write(mc).resolve(name) when a
\* scope was given, None otherwise.
LookupInterface(h, scope, name, held) ==
    IF scope # NoScope
    THEN ScopeResolve(h, scope, name, AddScopeWrite(held, scope))
    ELSE NotBound

\* The interface's "prototype" property, coerced to an object.
InterfaceProto(found, got) ==
    IF ~got.ok THEN Err(got.err, found.events \o got.events)
    ELSE IF got.val = Undefined THEN Err("as_object", found.events \o got.events)
    ELSE Ok(got.val, found.events \o got.events)

\* What the loop does with the lookup's answer: its error, the error of a
\* name that is not bound, or the interface coerced to an object and asked
\* for its "prototype".
InterfaceFound(h, found, held) ==
    IF ~found.ok THEN Err(found.err, found.events)
    ELSE IF ~found.some THEN Err("Could not resolve interface", found.events)
    ELSE IF found.val = Undefined THEN Err("as_object", found.events)
    ELSE InterfaceProto(found,
                        GetProperty(h, found.val, found.val, "prototype", held))

\* One turn of the loop over the interface names: the interface's prototype
\* object, or the error that ends from_class.
ResolveInterface(h, scope, name, held) ==
    InterfaceFound(h, LookupInterface(h, scope, name, held), held)

\* A mutation: the new prototype goes to the front of the list.
PushInterfaceFront(interfaces, iface_proto) == <<iface_proto>> \o interfaces

\* interfaces.push(iface_proto)
PushInterface(interfaces, iface_proto) == Append(interfaces, iface_proto)

\* The events of the turns so far, before those of the turns that follow.
EventsBefore(events, rest) == [rest EXCEPT !.events = events \o @]

\* Step 2: the loop over class.interfaces(), from the list built so far.
RECURSIVE ResolveInterfaces(_, _, _, _, _)
\* After one turn: the error ends the loop, the prototype is pushed and the
\* loop goes on with the names that remain.
InterfaceTurn(h, scope, names, interfaces, held, one) ==
    IF ~one.ok
    THEN [ok |-> FALSE, err |-> one.err, ifaces |-> <<>>, events |-> one.events]
    ELSE EventsBefore(one.events,
                      ResolveInterfaces(h, scope, Tail(names),
                                        PushInterface(interfaces, one.val), held))

ResolveInterfaces(h, scope, names, interfaces, held) ==
    IF names = <<>>
    THEN [ok |-> TRUE, err |-> "", ifaces |-> interfaces, events |-> <<>>]
    ELSE InterfaceTurn(h, scope, names, interfaces, held,
                       ResolveInterface(h, scope, Head(names), held))

\* A mutation: the interface list is set on the object the new prototype
\* derives from.
AttachInterfacesOnSuper(h, class_proto, interfaces) ==
    IF interfaces # <<>> /\ h[class_proto].base.proto # None
    THEN [heap |-> SetInterfaces(h, h[class_proto].base.proto, interfaces),
          events |-> <<SetInterfacesEvent(h[class_proto].base.proto)>>]
    ELSE [heap |-> h, events |-> <<>>]

\* if !interfaces.is_empty() { class_proto.set_interfaces(..) }
AttachInterfaces(h, class_proto, interfaces) ==
    IF interfaces # <<>>
    THEN [heap |-> SetInterfaces(h, class_proto, interfaces),
          events |-> <<SetInterfacesEvent(class_proto)>>]
    ELSE [heap |-> h, events |-> <<>>]

\* A mutation: the constructor's executable is bound to the function
\* prototype.
ConstrDataBound(class, scope, fn_proto) ==
    FunctionObjectData(BaseNew(fn_proto, ClassConstructor(class, scope)),
                       ExecFromMethod(InstanceInit(class), scope, fn_proto),
                       "from_class")

\* Step 3: the data of the constructor object.
ConstrData(class, scope, fn_proto) ==
    FunctionObjectData(BaseNew(fn_proto, ClassConstructor(class, scope)),
                       ExecFromMethod(InstanceInit(class), scope, None), "from_class")

\* A mutation: the prototype's back-link is never installed.
ClassBackLinkOneWay(h, constr, class_proto, ok1, ok2) ==
    LET i1 == InstallDynamicProperty(h, constr, "prototype", class_proto, ok1)
    IN  IF ~i1.ok THEN [ok |-> FALSE, err |-> "install prototype", heap |-> i1.heap]
        ELSE [ok |-> TRUE, err |-> "", heap |-> i1.heap]

\* Step 4: constr.prototype = class_proto, then class_proto.constructor =
\* constr, each installation propagating its error.
ClassBackLink(h, constr, class_proto, ok1, ok2) ==
    LET i1 == InstallDynamicProperty(h, constr, "prototype", class_proto, ok1)
        i2 == InstallDynamicProperty(i1.heap, class_proto, "constructor", constr, ok2)
    IN  IF ~i1.ok THEN [ok |-> FALSE, err |-> "install prototype", heap |-> i1.heap]
        ELSE IF ~i2.ok THEN [ok |-> FALSE, err |-> "install constructor", heap |-> i2.heap]
        ELSE [ok |-> TRUE, err |-> "", heap |-> i2.heap]

\* A mutation: the static initializer is made on the function prototype.
ClassInitializerDataOnFnProto(class, scope, class_constr_proto) ==
    FromMethodData(ClassInit(class), scope, FnProto, None)

\* Step 5: the data of the static initializer function.
ClassInitializerData(class, scope, class_constr_proto) ==
    FromMethodData(ClassInit(class), scope, class_constr_proto, None)

FromClassFailed(err, h, class_proto, events) ==
    [ok |-> FALSE, err |-> err, heap |-> h, constr |-> None, cinit |-> None,
     proto |-> class_proto, events |-> events]

\* A mutation: from_class calls the static initializer on the constructor
\* before it returns.
FromClassLinkedRunsInit(class, scope, class_proto, events, constr, linked) ==
    IF ~linked.ok
    THEN FromClassFailed(linked.err, linked.heap, class_proto, events)
    ELSE [ok |-> TRUE, err |-> "",
          heap |-> Allocate(linked.heap,
                            ClassInitializerData(class, scope, ClassConstrProto)),
          constr |-> constr, cinit |-> Len(linked.heap) + 1, proto |-> class_proto,
          events |-> events \o
              Call(Allocate(linked.heap,
                            ClassInitializerData(class, scope, ClassConstrProto)),
                   Len(linked.heap) + 1, constr, <<>>,
                   AddClassRead(NoLocks, class)).events]

\* Steps 5 and 6, after the two installations of step 4: their error, or
\* the static initializer function and the pair that is returned.
FromClassLinked(class, scope, class_proto, events, constr, linked) ==
    IF ~linked.ok
    THEN FromClassFailed(linked.err, linked.heap, class_proto, events)
    ELSE [ok |-> TRUE, err |-> "",
          heap |-> Allocate(linked.heap,
                            ClassInitializerData(class, scope, ClassConstrProto)),
          constr |-> constr, cinit |-> Len(linked.heap) + 1, proto |-> class_proto,
          events |-> events]

\* Steps 3 to 6, from the heap that holds the instance prototype.
FromClassFinish(h, class, scope, class_proto, events, ok1, ok2) ==
    FromClassLinked(class, scope, class_proto, events, Len(h) + 1,
                    ClassBackLink(Allocate(h, ConstrData(class, scope, FnProto)),
                                  Len(h) + 1, class_proto, ok1, ok2))

\* A mutation: the interface errors are looked at after the constructor and
\* the static initializer were built.
FromClassInterfacesLateCheck(class, scope, p, r, ok1, ok2) ==
    LET a == AttachInterfaces(p.heap, p.proto, r.ifaces)
    IN  [FromClassFinish(a.heap, class, scope, p.proto,
                         p.events \o r.events \o a.events, ok1, ok2)
            EXCEPT !.ok = IF ~r.ok THEN FALSE ELSE @,
                   !.err = IF ~r.ok THEN r.err ELSE @]

\* from_class after the loop over the interface names: its error, or the
\* list attached to the instance prototype p.proto and steps 3 to 6.
FromClassInterfaces(class, scope, p, r, ok1, ok2) ==
    LET a == AttachInterfaces(p.heap, p.proto, r.ifaces)
    IN  IF ~r.ok
        THEN FromClassFailed(r.err, p.heap, p.proto, p.events \o r.events)
        ELSE FromClassFinish(a.heap, class, scope, p.proto,
                             p.events \o r.events \o a.events, ok1, ok2)

\* from_class after step 1: its error, or the loop over the interface names
\* on the heap that holds the instance prototype.
FromClassProto(class, scope, held, p, ok1, ok2) ==
    IF ~p.ok
    THEN FromClassFailed(p.err, p.heap, None, p.events)
    ELSE FromClassInterfaces(class, scope, p,
                             ResolveInterfaces(p.heap, scope, ClassInterfaces(class),
                                               <<>>, held),
                             ok1, ok2)

\* FunctionObject::from_class: the new heap, Result<(Object, Object), Error>,
\* the instance prototype it built and the events of the call.  class.read()
\* is held from the first line to the last.
FromClass(h, class, base_class, scope, ok1, ok2) ==
    FromClassProto(class, scope, AddClassRead(NoLocks, class),
                   ClassProto(h, class, base_class, scope,
                              AddClassRead(NoLocks, class)),
                   ok1, ok2)

(***************************************************************************)
(* FunctionObject: install_getter, install_setter.                         *)
(***************************************************************************)
\* ScriptObjectData::install_getter: the getter of a virtual property is the
\* function's executable; the setter, if any, is kept.
BaseInstallGetter(base, name, exec) ==
    LET p == base.props[name]
    IN  [base EXCEPT !.props[name] =
            VirtProp(exec, IF p.k = "virt" THEN p.set ELSE NoExec)]

\* ScriptObjectData::install_setter
BaseInstallSetter(base, name, exec) ==
    LET p == base.props[name]
    IN  [base EXCEPT !.props[name] =
            VirtProp(IF p.k = "virt" THEN p.get ELSE NoExec, exec)]

\* FunctionObject::install_getter
InstallGetter(h, o, name, function) ==
    [h EXCEPT ![o].base = BaseInstallGetter(@, name, h[function].exec)]

\* FunctionObject::install_setter
InstallSetter(h, o, name, function) ==
    [h EXCEPT ![o].base = BaseInstallSetter(@, name, h[function].exec)]

(***************************************************************************)
(* The state machine.  `ret` is what the last operation was given and what *)
(* it returned; `log` holds the events of that operation.                  *)
(***************************************************************************)
NoInputs ==
    [class |-> "-", base |-> None, scope |-> NoScope, obj |-> None, recv |-> None,
     name |-> "-", value |-> Undefined, args |-> <<>>, method |-> "-",
     ok1 |-> TRUE, ok2 |-> TRUE, len |-> 0]

Returned(op, in, ok, err, val) ==
    [op |-> op, in |-> in, ok |-> ok, err |-> err, val |-> val, constr |-> None,
     cinit |-> None, proto |-> None]

(***************************************************************************)
(* The heap after the global bootstrap: the three objects it supplies and  *)
(* two builtin classes made by from_builtin_constr, the first on the       *)
(* function prototype, the second on the class prototype.                  *)
(***************************************************************************)
RootHeap ==
    << ScriptObject(BaseNew(None, NoClass), "bootstrap"),
       ScriptObject(BaseNew(None, NoClass), "bootstrap"),
       ScriptObject(BaseNew(None, NoClass), "bootstrap") >>

BootHeap ==
    FromBuiltinConstr(
        FromBuiltinConstr(RootHeap, "nfThis", FnProto, FnProto, TRUE, TRUE).heap,
        "nfThrow", ClassConstrProto, FnProto, TRUE, TRUE).heap

FunctionClass == Len(RootHeap) + 1

ClassClass == Len(RootHeap) + 2

Init ==
    /\ heap = BootHeap
    /\ ret = Returned("init", NoInputs, TRUE, "", Undefined)
    /\ log = <<>>
    /\ timers = <<>>

(***************************************************************************)
(* The states class derivation starts from: the bootstrap heap after the   *)
(* class loader bound (or not) each interface name in the defining scope   *)
(* to undefined, to a builtin class or to a getter, and after the second   *)
(* builtin class had its "prototype" left as it is or replaced by a getter.*)
(***************************************************************************)
Bind(h, name, how) ==
    CASE how = "unbound" -> h
      [] how = "undefined" -> InstallDynamicProperty(h, ScopeObject, name, Undefined, TRUE).heap
      [] how = "function" -> InstallDynamicProperty(h, ScopeObject, name, FunctionClass, TRUE).heap
      [] how = "class" -> InstallDynamicProperty(h, ScopeObject, name, ClassClass, TRUE).heap
      [] how = "getter" -> InstallGetter(h, ScopeObject, name, FunctionClass)

Bindings == {"unbound", "undefined", "function", "class", "getter"}

WithPrototypeGetter(h, how) ==
    CASE how = "value" -> h
      [] how = "getter" -> InstallGetter(h, ClassClass, "prototype", FunctionClass)
      [] how = "throws" -> InstallGetter(h, ClassClass, "prototype", ClassClass)

ClassConfigs ==
    {<<b1, b2, "value">> : b1 \in Bindings, b2 \in Bindings}
        \cup {<<"function", "class", g>> : g \in {"getter", "throws"}}

InitClass ==
    /\ \E c \in ClassConfigs :
          heap = WithPrototypeGetter(Bind(Bind(BootHeap, "I1", c[1]), "I2", c[2]), c[3])
    /\ ret = Returned("init", NoInputs, TRUE, "", Undefined)
    /\ log = <<>>
    /\ timers = <<>>

\* The receivers a function is bound to, and those a caller supplies.
BoundRecievers == {None, FnProto}

CallRecievers == {None, FnProto, ClassConstrProto}

Executables == {o \in Refs : heap[o].exec # NoExec}

FromMethodOp(method, scope, reciever) ==
    /\ heap' = Allocate(heap, FromMethodData(method, scope, FnProto, reciever))
    /\ ret' = Returned("from_method",
                  [NoInputs EXCEPT !.method = method, !.scope = scope,
                                   !.recv = reciever, !.len = Len(heap)],
                  TRUE, "", Len(heap) + 1)
    /\ log' = <<>>
    /\ UNCHANGED timers

FromBuiltinOp(nf) ==
    /\ heap' = Allocate(heap, FromBuiltinData(nf, FnProto))
    /\ ret' = Returned("from_builtin",
                  [NoInputs EXCEPT !.method = nf, !.len = Len(heap)],
                  TRUE, "", Len(heap) + 1)
    /\ log' = <<>>
    /\ UNCHANGED timers

\* What from_builtin_constr leaves: the heap and the Result r.
FromBuiltinConstrReturn(in, r) ==
    /\ heap' = r.heap
    /\ ret' = Returned("from_builtin_constr", in, r.ok, r.err, r.val)
    /\ log' = <<>>
    /\ UNCHANGED timers

FromBuiltinConstrOp(nf, prototype, ok1, ok2) ==
    FromBuiltinConstrReturn(
        [NoInputs EXCEPT !.method = nf, !.obj = prototype, !.ok1 = ok1, !.ok2 = ok2,
                         !.len = Len(heap)],
        FromBuiltinConstr(heap, nf, prototype, FnProto, ok1, ok2))

\* What from_class leaves: the heap, the Result r and the events of the call.
FromClassReturn(in, r) ==
    /\ heap' = r.heap
    /\ ret' = [op |-> "from_class", in |-> in, ok |-> r.ok, err |-> r.err,
               val |-> Undefined, constr |-> r.constr, cinit |-> r.cinit,
               proto |-> r.proto]
    /\ log' = r.events
    /\ UNCHANGED timers

FromClassOp(class, base_class, scope, ok1, ok2) ==
    FromClassReturn(
        [NoInputs EXCEPT !.class = class, !.base = base_class, !.scope = scope,
                         !.ok1 = ok1, !.ok2 = ok2, !.len = Len(heap)],
        FromClass(heap, class, base_class, scope, ok1, ok2))

CallOp(f, reciever, arguments) ==
    /\ LET r == Call(heap, f, reciever, arguments, NoLocks)
       IN  /\ ret' = Returned("call",
                         [NoInputs EXCEPT !.obj = f, !.recv = reciever,
                                          !.args = arguments, !.len = Len(heap)],
                         r.ok, r.err, r.val)
           /\ log' = r.events
           /\ UNCHANGED timers
    /\ UNCHANGED heap

ConstructOp(f, arguments) ==
    /\ heap' = Allocate(heap, ConstructData(heap, f))
    /\ ret' = Returned("construct",
                  [NoInputs EXCEPT !.obj = f, !.args = arguments, !.len = Len(heap)],
                  TRUE, "", Len(heap) + 1)
    /\ log' = <<>>
    /\ UNCHANGED timers

DeriveOp(f, class, scope) ==
    /\ heap' = Allocate(heap, DeriveData(heap, f, class, scope))
    /\ ret' = Returned("derive",
                  [NoInputs EXCEPT !.obj = f, !.class = class, !.scope = scope,
                                   !.len = Len(heap)],
                  TRUE, "", Len(heap) + 1)
    /\ log' = <<>>
    /\ UNCHANGED timers

GetPropertyLocalOp(o, name) ==
    /\ LET r == GetPropertyLocal(heap, o, o, name, NoLocks)
       IN  /\ ret' = Returned("get_property_local",
                         [NoInputs EXCEPT !.obj = o, !.recv = o, !.name = name,
                                          !.len = Len(heap)],
                         r.ok, r.err, r.val)
           /\ log' = r.events
           /\ UNCHANGED timers
    /\ UNCHANGED heap

SetPropertyLocalOp(o, name, value) ==
    /\ LET r == SetPropertyLocal(heap, o, o, name, value, NoLocks)
       IN  /\ heap' = r.heap
           /\ ret' = Returned("set_property_local",
                         [NoInputs EXCEPT !.obj = o, !.recv = o, !.name = name,
                                          !.value = value, !.len = Len(heap)],
                         r.res.ok, r.res.err, Undefined)
           /\ log' = r.res.events
           /\ UNCHANGED timers

InitPropertyLocalOp(o, name, value) ==
    /\ LET r == InitPropertyLocal(heap, o, o, name, value, NoLocks)
       IN  /\ heap' = r.heap
           /\ ret' = Returned("init_property_local",
                         [NoInputs EXCEPT !.obj = o, !.recv = o, !.name = name,
                                          !.value = value, !.len = Len(heap)],
                         r.res.ok, r.res.err, Undefined)
           /\ log' = r.res.events
           /\ UNCHANGED timers

InstallGetterOp(o, name, function) ==
    /\ heap' = InstallGetter(heap, o, name, function)
    /\ ret' = Returned("install_getter",
                  [NoInputs EXCEPT !.obj = o, !.name = name, !.value = function,
                                   !.len = Len(heap)],
                  TRUE, "", Undefined)
    /\ log' = <<>>
    /\ UNCHANGED timers

InstallSetterOp(o, name, function) ==
    /\ heap' = InstallSetter(heap, o, name, function)
    /\ ret' = Returned("install_setter",
                  [NoInputs EXCEPT !.obj = o, !.name = name, !.value = function,
                                   !.len = Len(heap)],
                  TRUE, "", Undefined)
    /\ log' = <<>>
    /\ UNCHANGED timers

InstallDynamicPropertyOp(o, name, value, ok) ==
    /\ LET r == InstallDynamicProperty(heap, o, name, value, ok)
       IN  /\ heap' = r.heap
           /\ ret' = Returned("install_dynamic_property",
                         [NoInputs EXCEPT !.obj = o, !.name = name, !.value = value,
                                          !.len = Len(heap)],
                         r.ok, IF r.ok THEN "" ELSE "install", Undefined)
    /\ log' = <<>>
    /\ UNCHANGED timers

(***************************************************************************)
(* Class derivation: from_class and from_builtin_constr, from the states   *)
(* of InitClass.                                                           *)
(***************************************************************************)
BuiltinPrototypes == {FnProto, ScopeObject}

BaseClasses == {None, ScopeObject} \cup FunctionObjects

NextClass ==
    \/ /\ Len(heap) < MaxObj
       /\ \E prototype \in BuiltinPrototypes, ok1, ok2 \in BOOLEAN :
             FromBuiltinConstrOp("nfThis", prototype, ok1, ok2)
    \/ /\ Len(heap) + 3 <= MaxObj
       /\ \E class \in Classes, base_class \in BaseClasses, scope \in OptScopes,
             ok1, ok2 \in BOOLEAN :
             FromClassOp(class, base_class, scope, ok1, ok2)

SpecClass == InitClass /\ [][NextClass]_vars

(***************************************************************************)
(* Function values: from_method, from_builtin, construct, derive and call, *)
(* from the bootstrap heap.                                                *)
(***************************************************************************)
FunctionInputs ==
    {<<method, scope, reciever>> :
        method \in FunctionMethods, scope \in OptScopes, reciever \in BoundRecievers}
        \cup {<<"bcNoActivation", "S1", FnProto>>}

NextCall ==
    \/ /\ Len(heap) < MaxFn
       /\ \E in \in FunctionInputs : FromMethodOp(in[1], in[2], in[3])
    \/ /\ Len(heap) < MaxFn
       /\ FromBuiltinOp("nfThrow")
    \/ /\ Len(heap) < MaxFn
       /\ \E f \in FunctionObjects, arguments \in ArgLists : ConstructOp(f, arguments)
    \/ /\ Len(heap) < MaxFn
       /\ \E f \in FunctionObjects : DeriveOp(f, "K1", "S1")
    \/ \E f \in FunctionObjects, reciever \in CallRecievers, arguments \in ArgLists :
          CallOp(f, reciever, arguments)

SpecCall == Init /\ [][NextCall]_vars

(***************************************************************************)
(* Property access on the builtin classes: accessors are installed, and    *)
(* the property is read, set and initialised.                              *)
(***************************************************************************)
AccessedNames == {"constructor"}

PropertyValues == {Undefined, FnProto}

NextProp ==
    \/ \E o \in FunctionObjects, name \in AccessedNames, function \in Executables :
          InstallGetterOp(o, name, function)
    \/ \E o \in FunctionObjects, name \in AccessedNames, function \in Executables :
          InstallSetterOp(o, name, function)
    \/ \E o \in FunctionObjects, name \in AccessedNames : GetPropertyLocalOp(o, name)
    \/ \E o \in FunctionObjects, name \in AccessedNames, value \in PropertyValues :
          SetPropertyLocalOp(o, name, value)
    \/ \E o \in FunctionObjects, name \in AccessedNames, value \in PropertyValues :
          InitPropertyLocalOp(o, name, value)
    \/ \E o \in FunctionObjects, name \in AccessedNames, value \in PropertyValues,
          ok \in BOOLEAN :
          InstallDynamicPropertyOp(o, name, value, ok)

SpecProp == Init /\ [][NextProp]_vars

(***************************************************************************)
(* Properties of class derivation, checked under SpecClass.                *)
(***************************************************************************)
\* The value a public property of an object reads as.
PropertyOf(o, name) == GetProperty(heap, o, o, name, NoLocks).val

ExecEvents == {i \in DOMAIN log : log[i].ev \in {"run", "not_entered"}}

\* The objects the last operation allocated.
Allocated == (ret.in.len + 1)..Len(heap)

\* C1: whenever from_class returns Ok((constructor, static_initializer)),
\* with or without a base class, the constructor's `prototype` property is
\* the instance prototype built in that call and that prototype's
\* `constructor` property is the returned constructor, in the state
\* from_class returns in.
C1_MutualLinkage ==
    (ret.op = "from_class" /\ ret.ok) =>
        /\ ret.proto \in Allocated
        /\ ret.constr \in Allocated
        /\ PropertyOf(ret.constr, "prototype") = ret.proto
        /\ PropertyOf(ret.proto, "constructor") = ret.constr

C1_Witness ==
    /\ ret.op = "from_class" /\ ret.ok /\ ret.in.base # None
    /\ PropertyOf(ret.constr, "prototype") = ret.proto
    /\ PropertyOf(ret.proto, "constructor") = ret.constr

\* C2: whenever from_builtin_constr(constr, P, fn_proto) returns Ok(C),
\* C.prototype is P and P.constructor is C; when either of the two
\* installations fails it returns an error and no constructor.
C2_BuiltinConstrLinkage ==
    (ret.op = "from_builtin_constr") =>
        /\ ret.ok =>
              /\ ret.val \in Allocated
              /\ PropertyOf(ret.val, "prototype") = ret.in.obj
              /\ PropertyOf(ret.in.obj, "constructor") = ret.val
        /\ (~ret.in.ok1 \/ ~ret.in.ok2) => (~ret.ok /\ ret.val = None)

C2_Witness ==
    /\ ret.op = "from_builtin_constr" /\ ret.ok /\ ret.in.obj = ScopeObject
    /\ PropertyOf(ret.val, "prototype") = ScopeObject
    /\ PropertyOf(ScopeObject, "constructor") = ret.val

\* The `prototype` object of what the i-th interface name of class c is
\* bound to in the defining scope.
InterfacePrototype(c, i) ==
    PropertyOf(ScopeResolve(heap, "S1", ClassInterfaces(c)[i], NoLocks).val, "prototype")

SetInterfacesCalls == {i \in DOMAIN log : log[i].ev = "set_interfaces"}

\* C3: after a successful from_class for a class declaring I1..In, the
\* instance prototype's interfaces() is exactly the `prototype` objects of
\* the resolved I1..In in declaration order; when the class declares no
\* interface, interfaces() is empty and set_interfaces is never called.
C3_InterfacePropagation ==
    (ret.op = "from_class" /\ ret.ok) =>
        LET c == ret.in.class
            n == Len(ClassInterfaces(c))
        IN  /\ Len(Interfaces(heap, ret.proto)) = n
            /\ \A i \in 1..n : Interfaces(heap, ret.proto)[i] = InterfacePrototype(c, i)
            /\ n = 0 => SetInterfacesCalls = {}

C3_Witness ==
    /\ ret.op = "from_class" /\ ret.ok /\ ret.in.class = "K2"
    /\ Interfaces(heap, ret.proto) = <<FnProto, ClassConstrProto>>

\* C6: if an interface name the class declares is not bound in the defining
\* scope, from_class returns an error and neither the constructor nor the
\* static initializer is created.
Unbound(name) == heap[ScopeObject].base.props[name].k = "absent"

C6_MissingInterface ==
    (/\ ret.op = "from_class"
     /\ ret.in.scope # NoScope
     /\ \E i \in DOMAIN ClassInterfaces(ret.in.class) :
           Unbound(ClassInterfaces(ret.in.class)[i])) =>
        /\ ~ret.ok
        /\ ret.constr = None /\ ret.cinit = None
        /\ \A o \in Allocated : heap[o].origin \notin {"from_class", "from_method"}

C6_Witness ==
    /\ ret.op = "from_class" /\ ret.in.class = "K2" /\ ret.in.scope = "S1"
    /\ ~Unbound("I1") /\ Unbound("I2")
    /\ ret.err = "Could not resolve interface"
    /\ ret.proto \in Allocated

\* Every interface name of class c resolves in scope to an object whose
\* `prototype` is an object.
Resolvable(c, scope) ==
    \A i \in DOMAIN ClassInterfaces(c) :
        /\ scope # NoScope
        /\ LET r == ScopeResolve(heap, scope, ClassInterfaces(c)[i], NoLocks)
           IN  /\ r.ok /\ r.some /\ r.val # Undefined
               /\ GetProperty(heap, r.val, r.val, "prototype", NoLocks).ok
               /\ PropertyOf(r.val, "prototype") # Undefined

\* C7: from_class with no base class is not an error: it never returns the
\* superclass error, it succeeds when the interfaces resolve and the two
\* installations are accepted, and the instance prototype is then a bare
\* object: no prototype link, no class marker.
C7_BaselessDerivation ==
    (ret.op = "from_class" /\ ret.in.base = None) =>
        /\ ret.err # "Could not resolve superclass prototype"
        /\ (Resolvable(ret.in.class, ret.in.scope) /\ ret.in.ok1 /\ ret.in.ok2) => ret.ok
        /\ ret.ok =>
              /\ heap[ret.proto].base.proto = None
              /\ heap[ret.proto].base.class = NoClass
              /\ heap[ret.proto].exec = NoExec

C7_Witness ==
    /\ ret.op = "from_class" /\ ret.in.base = None /\ ret.ok
    /\ ret.in.class = "K1"
    /\ heap[ret.proto].base.proto = None
    /\ heap[ret.proto].base.class = NoClass

\* C8 as claimed: from_class without a defining scope succeeds with zero
\* interfaces for any class, one that declares interface names included
\* (no base class, both installations accepted).
C8_Claimed ==
    (/\ ret.op = "from_class" /\ ret.in.scope = NoScope
     /\ ret.in.base = None /\ ret.in.ok1 /\ ret.in.ok2) =>
        (ret.ok /\ Interfaces(heap, ret.proto) = <<>>)

\* C8 as amended: without a defining scope no scope is resolved; a class
\* that declares no interface name derives with zero interfaces, and a
\* class that declares one or more fails: from_class returns the
\* unresolved-interface error (once the instance prototype is built) and
\* creates no constructor.
C8_NoScope ==
    (ret.op = "from_class" /\ ret.in.scope = NoScope) =>
        /\ \A i \in DOMAIN log : log[i].held.wscope = {}
        /\ (ClassInterfaces(ret.in.class) = <<>> /\ ret.ok) =>
              Interfaces(heap, ret.proto) = <<>>
        /\ (ClassInterfaces(ret.in.class) = <<>> /\ ret.in.base = None
               /\ ret.in.ok1 /\ ret.in.ok2) => ret.ok
        /\ ClassInterfaces(ret.in.class) # <<>> =>
              /\ ~ret.ok /\ ret.constr = None /\ ret.cinit = None
              /\ ret.proto # None => ret.err = "Could not resolve interface"

C8_Witness ==
    /\ ret.op = "from_class" /\ ret.in.scope = NoScope /\ ret.in.class = "K1"
    /\ ~Unbound("I1")
    /\ ret.in.base = None /\ ret.in.ok1 /\ ret.in.ok2
    /\ ret.err = "Could not resolve interface"

\* C9: from_class returns without running the static initializer or the
\* instance initializer of the class: no event of the call is a run (or an
\* attempted run) of either method.
C9_InitializersNotRun ==
    (ret.op = "from_class") =>
        \A i \in ExecEvents :
            log[i].exec.method \notin
                {InstanceInit(ret.in.class), ClassInit(ret.in.class)}

C9_Witness ==
    /\ ret.op = "from_class" /\ ret.ok /\ ExecEvents # {}
    /\ heap[ret.constr].exec.method = InstanceInit(ret.in.class)
    /\ heap[ret.cinit].exec.method = ClassInit(ret.in.class)

(***************************************************************************)
(* Properties of calls, checked under SpecCall.                            *)
(***************************************************************************)
\* C4: for an executable with a bound receiver R, Native or bytecode, exec
\* uses R as the receiver whatever receiver the caller supplies (none
\* included): every call of such a function hands R, and only R, to the
\* native function or to the activation.
C4_BoundReceiver ==
    (ret.op = "call" /\ heap[ret.in.obj].exec.reciever # None) =>
        /\ Len(log) = 1
        /\ \A i \in ExecEvents : log[i].recv = heap[ret.in.obj].exec.reciever

C4_Witness ==
    /\ ret.op = "call"
    /\ heap[ret.in.obj].exec.kind = "Action"
    /\ heap[ret.in.obj].exec.reciever = FnProto
    /\ ret.in.recv = ClassConstrProto
    /\ Len(log) = 1 /\ log[1].ev = "run" /\ log[1].recv = FnProto

\* C5: calling an object made by construct or derive returns the
\* not-callable error, for every receiver and argument list, and runs no
\* native function and no bytecode.
C5_NotCallable ==
    (ret.op = "call" /\ heap[ret.in.obj].origin \in {"construct", "derive"}) =>
        /\ ~ret.ok
        /\ ret.err = "Not a callable function!"
        /\ log = <<>>

C5_Witness ==
    /\ ret.op = "call" /\ heap[ret.in.obj].origin = "derive"
    /\ heap[heap[ret.in.obj].base.proto].exec # NoExec
    /\ ret.in.args = <<1>> /\ ret.in.recv = FnProto
    /\ ret.err = "Not a callable function!"

(***************************************************************************)
(* Properties of property access, checked under SpecProp.                  *)
(***************************************************************************)
\* C10: in set_property_local, init_property_local and get_property_local
\* the guard on the object's cell is dropped before the returned value is
\* resolved: whenever accessor code runs, the object's own cell is under
\* no lock of the property operation.
C10_AccessorRunsUnlocked ==
    (ret.op \in {"get_property_local", "set_property_local", "init_property_local"}) =>
        \A i \in ExecEvents :
            /\ ret.in.obj \notin log[i].held.wobj
            /\ ret.in.obj \notin log[i].held.robj

C10_Witness ==
    /\ ret.op = "set_property_local"
    /\ Len(log) = 1 /\ log[1].ev = "run"
    /\ log[1].exec = heap[ret.in.obj].base.props[ret.in.name].set
    /\ log[1].args = <<ret.in.value>>
    /\ log[1].held = NoLocks

(***************************************************************************)
(* Borrows held while user code runs.                                      *)
(***************************************************************************)
\* C11 as claimed: no user code runs under a write lock; during from_class
\* in particular, no accessor that the resolution of an interface name or
\* a property lookup runs finds the defining scope (or any object)
\* write-locked.
C11_Claimed ==
    (ret.op = "from_class") =>
        \A i \in ExecEvents :
            /\ log[i].held.wscope = {}
            /\ log[i].held.wobj = {}

\* The failing input of C11: the class declares I1, the defining scope binds
\* I1 to a getter, and the getter runs inside scope.write(mc).resolve(..).
C11_Witness ==
    /\ ret.op = "from_class" /\ ret.in.class = "K1" /\ ret.in.scope = "S1"
    /\ heap[ScopeObject].base.props["I1"].k = "virt"
    /\ Len(log) >= 1
    /\ log[1].ev = "run"
    /\ log[1].exec = heap[ScopeObject].base.props["I1"].get
    /\ log[1].held.wscope = {"S1"}

(***************************************************************************)
(* Every operation together, from the bootstrap heap: the builders, class  *)
(* derivation, construct, derive, call and the property operations on the  *)
(* `prototype` property.                                                   *)
(***************************************************************************)
MaxAll == 8

NextAll ==
    \/ /\ Len(heap) < MaxAll
       /\ FromMethodOp("bcUndef", "S1", None)
    \/ /\ Len(heap) < MaxAll
       /\ FromBuiltinOp("nfThrow")
    \/ /\ Len(heap) < MaxAll
       /\ \E ok2 \in BOOLEAN : FromBuiltinConstrOp("nfThis", FnProto, TRUE, ok2)
    \/ /\ Len(heap) + 3 <= MaxAll
       /\ \E base_class \in {None} \cup FunctionObjects, ok1 \in BOOLEAN :
             FromClassOp("K0", base_class, "S1", ok1, TRUE)
    \/ /\ Len(heap) < MaxAll
       /\ \E f \in FunctionObjects : ConstructOp(f, <<>>)
    \/ /\ Len(heap) < MaxAll
       /\ \E f \in FunctionObjects : DeriveOp(f, "K0", "S1")
    \/ \E f \in FunctionObjects : CallOp(f, None, <<>>)
    \/ GetPropertyLocalOp(ClassClass, "prototype")
    \/ SetPropertyLocalOp(ClassClass, "prototype", FunctionClass)
    \/ InitPropertyLocalOp(ClassClass, "prototype", FunctionClass)

SpecAll == Init /\ [][NextAll]_vars

\* The operation that allocated a function object.
Builders == {"from_method", "from_builtin", "from_builtin_constr", "from_class"}

\* C12: in every reachable state a FunctionObject has no executable if and
\* only if construct or derive allocated it; every FunctionObject that
\* from_method, from_builtin, from_builtin_constr or from_class allocated
\* has an executable.
C12_ExecIffBuilt ==
    \A o \in FunctionObjects :
        /\ heap[o].exec = NoExec <=> heap[o].origin \in {"construct", "derive"}
        /\ heap[o].origin \in Builders => heap[o].exec # NoExec

C12_Witness ==
    /\ ret.op = "from_class" /\ ret.ok
    /\ heap[ret.proto].variant = "FunctionObject"
    /\ heap[ret.proto].origin = "derive" /\ heap[ret.proto].exec = NoExec
    /\ heap[ret.constr].origin = "from_class" /\ heap[ret.constr].exec # NoExec
    /\ heap[ret.cinit].origin = "from_method" /\ heap[ret.cinit].exec # NoExec
    /\ \E o \in FunctionObjects : heap[o].origin = "from_builtin_constr"

(***************************************************************************)
(* The back-links over a sequence of derivations, checked under SpecClass. *)
(***************************************************************************)
\* The constructors that successful derivations returned: the two builtin
\* classes of the bootstrap and the one the last operation returned.
Constructors ==
    {FunctionClass, ClassClass}
        \cup (IF ret.op = "from_class" /\ ret.ok THEN {ret.constr} ELSE {})
        \cup (IF ret.op = "from_builtin_constr" /\ ret.ok THEN {ret.val} ELSE {})

\* C13 as claimed: after a successful derivation, one that was handed a
\* prototype an earlier derivation used included, every constructor C whose
\* `prototype` property holds an object P has P.constructor = C.
C13_Claimed ==
    (ret.op \in {"from_class", "from_builtin_constr"} /\ ret.ok) =>
        \A c \in Constructors :
            LET p == heap[c].base.props["prototype"]
            IN  (p.k = "val" /\ p.v # Undefined) => PropertyOf(p.v, "constructor") = c

\* The failing input of C13: from_builtin_constr is handed the function
\* prototype, which the bootstrap already linked to the Function class.
C13_Witness ==
    /\ ret.op = "from_builtin_constr" /\ ret.ok /\ ret.in.obj = FnProto
    /\ ret.val # FunctionClass
    /\ PropertyOf(ret.val, "prototype") = FnProto
    /\ PropertyOf(FunctionClass, "prototype") = FnProto
    /\ PropertyOf(FnProto, "constructor") = ret.val

(***************************************************************************)
(* Failure of from_class, checked under SpecClass.                         *)
(***************************************************************************)
\* The objects an object refers to: its prototype link, the values of its
\* properties and its interface list.
RefsOf(data) ==
    ({data.base.proto} \cup {data.base.props[n].v : n \in PropNames}
        \cup {data.base.ifaces[i] : i \in DOMAIN data.base.ifaces}) \ {None}

\* C14: a from_class that returns an error, at whichever step, returns one
\* error and neither constructor nor static initializer, and has written to
\* no object that existed before the call: every such object keeps its
\* properties, prototype link and interface list, and none of them refers
\* to an object that from_class allocated.
C14_FailureLeavesHeap ==
    [][(ret'.op = "from_class" /\ ~ret'.ok) =>
          /\ ret'.err # "" /\ ret'.constr = None /\ ret'.cinit = None
          /\ Len(heap') >= Len(heap)
          /\ SubSeq(heap', 1, Len(heap)) = heap
          /\ \A o \in 1..Len(heap) :
                RefsOf(heap'[o]) \cap ((Len(heap) + 1)..Len(heap')) = {}]_vars

C14_Witness ==
    /\ ret.op = "from_class" /\ ~ret.ok /\ ret.err = "install constructor"
    /\ ret.in.base # None
    /\ Len(heap) = ret.in.len + 2
    /\ Interfaces(heap, ret.proto) # <<>>
    /\ heap[Len(heap)].base.props["prototype"] = ValProp(ret.proto)
    /\ \A o \in 1..ret.in.len : RefsOf(heap[o]) \cap Allocated = {}

(***************************************************************************)
(* The borrow of the called function, checked under SpecCall.              *)
(***************************************************************************)
\* C15 as claimed: while the executable of a called function object runs,
\* call holds no borrow, read or write, of that object's own cell.
C15_Claimed ==
    (ret.op = "call") =>
        \A i \in ExecEvents :
            /\ ret.in.obj \notin log[i].held.robj
            /\ ret.in.obj \notin log[i].held.wobj

\* The failing input of C15: a bytecode function is called and its body
\* runs while the read guard of the call is alive.
C15_Witness ==
    /\ ret.op = "call" /\ ret.ok
    /\ heap[ret.in.obj].exec.kind = "Action"
    /\ Len(log) = 1 /\ log[1].ev = "run"
    /\ log[1].exec = heap[ret.in.obj].exec
    /\ log[1].held.robj = {ret.in.obj}

(***************************************************************************)
(* The instance prototype, the constructor and the static initializer of   *)
(* from_class, checked under SpecClass.                                    *)
(***************************************************************************)
\* What the `prototype` property of the base class of the last from_class
\* reads as.
SuperProto == GetProperty(heap, ret.in.base, ret.in.base, "prototype", NoLocks)

\* C16: when a base class is supplied and its `prototype` property does not
\* coerce to an object, from_class returns the unresolved-superclass-
\* prototype error, and it does so before derive is called and before any
\* object is allocated.
C16_SuperclassError ==
    (/\ ret.op = "from_class" /\ ret.in.base # None
     /\ SuperProto.ok /\ SuperProto.val = Undefined) =>
        /\ ~ret.ok
        /\ ret.err = "Could not resolve superclass prototype"
        /\ ret.proto = None /\ ret.constr = None /\ ret.cinit = None
        /\ Len(heap) = ret.in.len
        /\ SetInterfacesCalls = {}

C16_Witness ==
    /\ ret.op = "from_class" /\ ret.in.base = ScopeObject /\ ret.in.class = "K2"
    /\ heap[ScopeObject].base.props["prototype"] = Absent
    /\ ret.err = "Could not resolve superclass prototype"
    /\ Len(heap) = ret.in.len

\* C17: when a base class is supplied, the instance prototype from_class
\* builds is a newly allocated object, distinct from every object that
\* existed, whose prototype link is the base class's `prototype` object,
\* whose class marker is InstancePrototype(class, scope) for the class and
\* scope from_class was given, and which has no executable.
C17_DerivedPrototype ==
    (ret.op = "from_class" /\ ret.in.base # None) =>
        /\ ret.ok => ret.proto # None
        /\ ret.proto # None =>
              /\ ret.proto = ret.in.len + 1
              /\ ret.proto \in Allocated
              /\ SuperProto.ok /\ SuperProto.val # Undefined
              /\ heap[ret.proto].base.proto = SuperProto.val
              /\ heap[ret.proto].base.class =
                     InstancePrototype(ret.in.class, ret.in.scope)
              /\ heap[ret.proto].exec = NoExec

C17_Witness ==
    /\ ret.op = "from_class" /\ ret.ok /\ ret.in.base = ClassClass
    /\ ret.in.class = "K1" /\ ret.in.scope = "S1"
    /\ heap[ret.proto].variant = "FunctionObject"
    /\ heap[ret.proto].base.proto = ClassClass
    /\ heap[ret.proto].base.class = InstancePrototype("K1", "S1")
    /\ heap[ret.proto].exec = NoExec

\* Every call of function object f runs its body once, with the receiver
\* the caller supplies (none included).
RunsWithCallersReceiver(f) ==
    \A r \in CallRecievers :
        LET events == Call(heap, f, r, <<>>, NoLocks).events
        IN  /\ Len(events) = 1
            /\ events[1].ev = "run"
            /\ events[1].recv = r

\* C18 as claimed: the constructor from_class returns has the function
\* prototype as prototype link, the class marker ClassConstructor(class,
\* scope), and an executable of the instance initializer that captured the
\* defining scope and has no bound receiver, so that every call runs with
\* the caller's receiver.
C18_Claimed ==
    (ret.op = "from_class" /\ ret.ok) =>
        /\ heap[ret.constr].base.proto = FnProto
        /\ heap[ret.constr].base.class = ClassConstructor(ret.in.class, ret.in.scope)
        /\ heap[ret.constr].exec.method = InstanceInit(ret.in.class)
        /\ heap[ret.constr].exec.scope = ret.in.scope
        /\ heap[ret.constr].exec.reciever = None
        /\ RunsWithCallersReceiver(ret.constr)

\* C18 as amended: the same, but the executable captures the defining
\* scope only when the instance initializer is a bytecode method; the
\* executable of a native instance initializer holds no scope (the scope
\* is then kept by the class marker alone).
C18_Constructor ==
    (ret.op = "from_class" /\ ret.ok) =>
        /\ heap[ret.constr].base.proto = FnProto
        /\ heap[ret.constr].base.class = ClassConstructor(ret.in.class, ret.in.scope)
        /\ heap[ret.constr].exec.method = InstanceInit(ret.in.class)
        /\ heap[ret.constr].exec.kind =
               (IF InstanceInit(ret.in.class) \in NativeMethods
                THEN "Native" ELSE "Action")
        /\ heap[ret.constr].exec.scope =
               (IF InstanceInit(ret.in.class) \in NativeMethods
                THEN NoScope ELSE ret.in.scope)
        /\ heap[ret.constr].exec.reciever = None
        /\ RunsWithCallersReceiver(ret.constr)

C18_Witness ==
    /\ ret.op = "from_class" /\ ret.ok
    /\ ret.in.class = "K1" /\ ret.in.scope = "S1"
    /\ heap[ret.constr].exec.kind = "Native"
    /\ heap[ret.constr].exec.scope = NoScope
    /\ heap[ret.constr].base.class = ClassConstructor("K1", "S1")
    /\ heap[ret.constr].base.proto = FnProto
    /\ RunsWithCallersReceiver(ret.constr)

\* C19 as claimed: the static initializer from_class returns is a second
\* function object, distinct from the constructor, whose prototype link is
\* the class-constructor prototype, whose class marker is NoClass, and
\* whose executable is the static initializer method with the defining
\* scope captured and no bound receiver.
C19_Claimed ==
    (ret.op = "from_class" /\ ret.ok) =>
        /\ ret.cinit # ret.constr
        /\ ret.cinit \in Allocated
        /\ heap[ret.cinit].variant = "FunctionObject"
        /\ heap[ret.cinit].base.proto = ClassConstrProto
        /\ heap[ret.cinit].base.class = NoClass
        /\ heap[ret.cinit].exec.method = ClassInit(ret.in.class)
        /\ heap[ret.cinit].exec.scope = ret.in.scope
        /\ heap[ret.cinit].exec.reciever = None

\* C19 as amended: the same, but the executable captures the defining
\* scope only when the static initializer is a bytecode method; the
\* executable of a native static initializer holds no scope.
C19_StaticInitializer ==
    (ret.op = "from_class" /\ ret.ok) =>
        /\ ret.cinit # ret.constr
        /\ ret.cinit \in Allocated
        /\ heap[ret.cinit].variant = "FunctionObject"
        /\ heap[ret.cinit].base.proto = ClassConstrProto
        /\ heap[ret.cinit].base.class = NoClass
        /\ heap[ret.cinit].exec.method = ClassInit(ret.in.class)
        /\ heap[ret.cinit].exec.kind =
               (IF ClassInit(ret.in.class) \in NativeMethods
                THEN "Native" ELSE "Action")
        /\ heap[ret.cinit].exec.scope =
               (IF ClassInit(ret.in.class) \in NativeMethods
                THEN NoScope ELSE ret.in.scope)
        /\ heap[ret.cinit].exec.reciever = None

C19_Witness ==
    /\ ret.op = "from_class" /\ ret.ok
    /\ ret.in.class = "K2" /\ ret.in.scope = "S1"
    /\ ret.cinit = ret.constr + 1
    /\ heap[ret.cinit].exec.kind = "Native"
    /\ heap[ret.cinit].exec.method = "nfCinit"
    /\ heap[ret.cinit].exec.scope = NoScope
    /\ heap[ret.cinit].base.proto = ClassConstrProto
    /\ heap[ret.cinit].base.class = NoClass

(***************************************************************************)
(* construct, checked under SpecCall.                                      *)
(***************************************************************************)
\* C20: construct always succeeds and returns a newly allocated object,
\* another one on every call, whose prototype link is the constructing
\* object, which has no executable, the class marker NoClass and no
\* property; whatever the arguments, it runs no code and leaves the
\* constructing object, like every other object, as it was.
C20_Construct ==
    [][(ret'.op = "construct") =>
          /\ ret'.ok
          /\ ret'.val = Len(heap) + 1
          /\ Len(heap') = Len(heap) + 1
          /\ SubSeq(heap', 1, Len(heap)) = heap
          /\ heap'[ret'.val].variant = "FunctionObject"
          /\ heap'[ret'.val].base = BaseNew(ret'.in.obj, NoClass)
          /\ heap'[ret'.val].exec = NoExec
          /\ log' = <<>>]_vars

C20_Witness ==
    /\ ret.op = "construct" /\ ret.ok /\ ret.in.args = <<1>>
    /\ heap[ret.in.obj].exec # NoExec
    /\ ret.val = Len(heap)
    /\ heap[ret.val].base.proto = ret.in.obj
    /\ heap[ret.val].exec = NoExec
    /\ \E o \in FunctionObjects \ {ret.val} :
          heap[o].origin = "construct" /\ heap[o].base.proto = ret.in.obj
    /\ log = <<>>

(***************************************************************************)
(* The receiver binding: functions made by from_method, called and used    *)
(* as objects.                                                             *)
(***************************************************************************)
MaxBind == 7

\* The function objects from_method made.
Made == {o \in FunctionObjects : heap[o].origin = "from_method"}

\* What from_method is given: a native and a bytecode method, each without
\* and with a bound receiver.
BindInputs ==
    {<<"nfThis", NoScope, None>>, <<"nfThis", "S1", FnProto>>,
     <<"bcUndef", "S1", None>>, <<"bcUndef", "S1", FnProto>>}

NextBind ==
    \/ /\ Len(heap) < MaxBind
       /\ \E in \in BindInputs : FromMethodOp(in[1], in[2], in[3])
    \/ \E f \in Made, reciever \in CallRecievers : CallOp(f, reciever, <<>>)
    \/ \E f \in Made : GetPropertyLocalOp(f, "constructor")
    \/ \E f \in Made : SetPropertyLocalOp(f, "constructor", FnProto)
    \/ \E f \in Made : InitPropertyLocalOp(f, "constructor", Undefined)

SpecBind == Init /\ [][NextBind]_vars

\* C21: for an executable without bound receiver, Native or bytecode, exec
\* uses exactly the receiver the caller of that call supplies, none when
\* the caller supplies none, whatever the receivers of earlier calls were.
C21_UnboundReceiver ==
    (/\ ret.op = "call"
     /\ heap[ret.in.obj].exec # NoExec
     /\ heap[ret.in.obj].exec.reciever = None) =>
        /\ Len(log) = 1
        /\ log[1].ev = "run"
        /\ log[1].exec = heap[ret.in.obj].exec
        /\ log[1].recv = ret.in.recv

C21_Witness ==
    /\ ret.op = "call"
    /\ heap[ret.in.obj].exec.kind = "Native"
    /\ heap[ret.in.obj].exec.reciever = None
    /\ ret.in.recv = None
    /\ Len(log) = 1 /\ log[1].ev = "run" /\ log[1].recv = None
    /\ ret.ok /\ ret.val = None

\* C22: the executable of a function object is what Executable::from_method
\* built from the method, scope and receiver it was given (a bytecode
\* executable holds all three, a native one the method and the receiver and
\* no scope), and no later step, call or property operation on the function
\* object, changes its bound receiver, its method or its captured scope.
C22_BindingFixed ==
    [][/\ Len(heap') >= Len(heap)
       /\ \A o \in 1..Len(heap) : heap'[o].exec = heap[o].exec
       /\ (ret'.op = "from_method") =>
             /\ ret'.val = Len(heap) + 1
             /\ heap'[ret'.val].exec.method = ret'.in.method
             /\ heap'[ret'.val].exec.reciever = ret'.in.recv
             /\ heap'[ret'.val].exec.kind =
                    (IF ret'.in.method \in NativeMethods THEN "Native" ELSE "Action")
             /\ heap'[ret'.val].exec.scope =
                    (IF ret'.in.method \in NativeMethods
                     THEN NoScope ELSE ret'.in.scope)]_vars

C22_Witness ==
    /\ ret.op = "call" /\ ret.in.recv = ClassConstrProto
    /\ heap[ret.in.obj].origin = "from_method"
    /\ heap[ret.in.obj].exec =
           [kind |-> "Action", method |-> "bcUndef", scope |-> "S1",
            reciever |-> FnProto]
    /\ heap[ret.in.obj].base.props["constructor"] = ValProp(FnProto)
    /\ Len(log) = 1 /\ log[1].recv = FnProto

(***************************************************************************)
(* AVM1 timers (core/src/avm1/globals.rs): set_interval, set_timeout and   *)
(* create_timer.  `timers` is the registry of the update context, a        *)
(* sequence of the timers added so far.                                    *)
(*                                                                         *)
(* An AVM1 value is a record tagged with its variant; an AVM1 object       *)
(* carries whether as_executable() is Some and whether converting it to a  *)
(* primitive (its toString / valueOf) fails.                               *)
(***************************************************************************)
MaxTimers == 1

NoValue == [t |-> "None"]

ValueUndefined == [t |-> "Undefined"]

ValueNumber(n) == [t |-> "Number", n |-> n]

ValueString(s) == [t |-> "String", s |-> s]

ValueObject(o) == [t |-> "Object", o |-> o]

TimerObject(name, executable, throws) ==
    [name |-> name, executable |-> executable, throws |-> throws]

\* o.as_executable().is_some()
IsExecutable(o) == o.executable

\* args.get(i), indexes from 0.
ArgsGet(args, i) == IF i < Len(args) THEN args[i + 1] ELSE NoValue

\* args.get(i).unwrap_or(&Value::Undefined)
UnwrapOrUndefined(value) == IF value.t = "None" THEN ValueUndefined ELSE value

Coerced(val) == [ok |-> TRUE, err |-> "", val |-> val]

CoerceFailed(err) == [ok |-> FALSE, err |-> err, val |-> 0]

DigitStr == <<"0", "1", "2", "3", "4", "5", "6", "7", "8", "9">>

RECURSIVE Decimal(_)
Decimal(n) ==
    IF n < 0 THEN "-" \o Decimal(0 - n)
    ELSE IF n < 10 THEN DigitStr[n + 1]
    ELSE Decimal(n \div 10) \o DigitStr[(n % 10) + 1]

\* The numerals a string of the model can spell.
Numerals == 0..99

\* The number a string spells, or 0 for a string that spells none (NaN).
StringToI32(s) ==
    IF \E n \in Numerals : Decimal(n) = s
    THEN CHOOSE n \in Numerals : Decimal(n) = s
    ELSE 0

\* Value::coerce_to_string: an object is converted by a call into the
\* script, which can fail.
CoerceToString(value) ==
    CASE value.t = "Undefined" -> Coerced("undefined")
      [] value.t = "Number" -> Coerced(Decimal(value.n))
      [] value.t = "String" -> Coerced(value.s)
      [] value.t = "Object" ->
            IF value.o.throws THEN CoerceFailed("toString")
            ELSE IF IsExecutable(value.o) THEN Coerced("[type Function]")
            ELSE Coerced("[object Object]")

\* Value::coerce_to_i32: an object is converted by a call into the script,
\* which can fail; what is no number converts to 0.  The numbers of the model
\* are whole and within the i32 range, which the conversion keeps.
CoerceToI32(value) ==
    CASE value.t = "Undefined" -> Coerced(0)
      [] value.t = "Number" -> Coerced(value.n)
      [] value.t = "String" -> Coerced(StringToI32(value.s))
      [] value.t = "Object" ->
            IF value.o.throws THEN CoerceFailed("valueOf") ELSE Coerced(0)

TimerCallbackFunction(o) == [kind |-> "Function", this |-> o, method_name |-> ""]

TimerCallbackMethod(o, method_name) ==
    [kind |-> "Method", this |-> o, method_name |-> method_name]

\* Timers::add_timer: the registry with the new timer, and its id.
AddTimer(registry, callback, interval, params, is_timeout) ==
    [timers |-> Append(registry,
                    [id |-> Len(registry) + 1, callback |-> callback,
                     interval |-> interval, params |-> params,
                     is_timeout |-> is_timeout]),
     id |-> Len(registry) + 1]

TimerOk(registry, val) ==
    [ok |-> TRUE, err |-> "", val |-> val, timers |-> registry]

TimerErr(registry, err) ==
    [ok |-> FALSE, err |-> err, val |-> ValueUndefined, timers |-> registry]

\* Ok(id.into()) of the timer add_timer gave.
CreateTimerAdded(added) == TimerOk(added.timers, ValueNumber(added.id))

\* args.get(i + 1..), or no parameters.
CreateTimerParams(args, i) ==
    IF i + 1 <= Len(args) THEN SubSeq(args, i + 2, Len(args)) ELSE <<>>

\* The second half of create_timer, with the interval coerced.
CreateTimerCoerced(registry, args, callback, i, interval, is_timeout) ==
    IF ~interval.ok THEN TimerErr(registry, interval.err)
    ELSE CreateTimerAdded(
             AddTimer(registry, callback, interval.val, CreateTimerParams(args, i),
                      is_timeout))

\* The second half of create_timer: the interval at args[i].
CreateTimerInterval(registry, args, callback, i, value, is_timeout) ==
    IF value.t = "None" \/ value.t = "Undefined"
    THEN TimerOk(registry, ValueUndefined)
    ELSE CreateTimerCoerced(registry, args, callback, i, CoerceToI32(value), is_timeout)

\* The Method arm of the first match, with the method name coerced.
CreateTimerMethod(registry, args, o, method_name, is_timeout) ==
    IF ~method_name.ok THEN TimerErr(registry, method_name.err)
    ELSE CreateTimerInterval(registry, args, TimerCallbackMethod(o, method_name.val),
                             2, ArgsGet(args, 2), is_timeout)

\* As CreateTimerCallback, the interval of a method callback read at index 1.
CreateTimerCallbackSameIndex(registry, args, first, is_timeout) ==
    IF first.t # "Object" THEN TimerOk(registry, ValueUndefined)
    ELSE IF IsExecutable(first.o)
    THEN CreateTimerInterval(registry, args, TimerCallbackFunction(first.o),
                             1, ArgsGet(args, 1), is_timeout)
    ELSE IF ~CoerceToString(UnwrapOrUndefined(ArgsGet(args, 1))).ok
    THEN TimerErr(registry, "toString")
    ELSE CreateTimerInterval(registry, args,
             TimerCallbackMethod(first.o,
                 CoerceToString(UnwrapOrUndefined(ArgsGet(args, 1))).val),
             1, ArgsGet(args, 1), is_timeout)

\* The first match of create_timer, on args.get(0).
CreateTimerCallback(registry, args, first, is_timeout) ==
    IF first.t # "Object" THEN TimerOk(registry, ValueUndefined)
    ELSE IF IsExecutable(first.o)
    THEN CreateTimerInterval(registry, args, TimerCallbackFunction(first.o),
                             1, ArgsGet(args, 1), is_timeout)
    ELSE CreateTimerMethod(registry, args, first.o,
                           CoerceToString(UnwrapOrUndefined(ArgsGet(args, 1))),
                           is_timeout)

CreateTimer(registry, args, is_timeout) ==
    CreateTimerCallback(registry, args, ArgsGet(args, 0), is_timeout)

\* What set_interval and set_timeout leave: the registry and the Result r.
CreateTimerReturn(op, args, r) ==
    /\ timers' = r.timers
    /\ ret' = Returned(op, [NoInputs EXCEPT !.args = args, !.len = Len(timers)],
                  r.ok, r.err, r.val)
    /\ log' = <<>>
    /\ UNCHANGED heap

SetIntervalOp(args) ==
    CreateTimerReturn("set_interval", args, CreateTimer(timers, args, FALSE))

SetTimeoutOp(args) ==
    CreateTimerReturn("set_timeout", args, CreateTimer(timers, args, TRUE))

(***************************************************************************)
(* The calls of setInterval / setTimeout: a callback function, a plain     *)
(* object, an object whose conversion fails, numbers, strings (one a       *)
(* numeral) and undefined, in argument lists of every length up to four.   *)
(***************************************************************************)
TimerFunction == ValueObject(TimerObject("f", TRUE, FALSE))

TimerPlain == ValueObject(TimerObject("o", FALSE, FALSE))

TimerThrowing == ValueObject(TimerObject("t", FALSE, TRUE))

TimerFirsts == {ValueNumber(40), TimerFunction, TimerPlain}

TimerSeconds == {ValueUndefined, ValueNumber(40), ValueString("tick"), TimerThrowing}

TimerThirds == {ValueUndefined, ValueNumber(40), TimerThrowing}

TimerArgs ==
    {<<>>, <<TimerFunction, ValueNumber(0 - 7)>>,
     <<TimerFunction, ValueString("40")>>,
     <<TimerFunction, ValueNumber(40), ValueNumber(40), ValueNumber(40)>>}
        \cup {<<a>> : a \in TimerFirsts}
        \cup {<<a, b>> : a \in TimerFirsts, b \in TimerSeconds}
        \cup {<<a, b, c>> : a \in TimerFirsts, b \in TimerSeconds, c \in TimerThirds}
        \cup {<<TimerPlain, b, ValueNumber(40), ValueNumber(40)>> : b \in TimerSeconds}

NextTimer ==
    \/ /\ Len(timers) < MaxTimers
       /\ \E args \in TimerArgs : SetIntervalOp(args)
    \/ /\ Len(timers) < MaxTimers
       /\ \E args \in TimerArgs : SetTimeoutOp(args)

\* The state before the first call: no timer, and a registry owner that has
\* returned no value yet.
InitTimer ==
    /\ heap = BootHeap
    /\ ret = Returned("init", NoInputs, TRUE, "", ValueUndefined)
    /\ log = <<>>
    /\ timers = <<>>

SpecTimer == InitTimer /\ [][NextTimer]_vars

TimerOps == {"set_interval", "set_timeout"}

\* The first argument is an object.
FirstIsObject(args) == ArgsGet(args, 0).t = "Object"

\* Where the interval argument is: index 1 after a callable object, 2 after
\* any other.
IntervalIndex(args) == IF IsExecutable(ArgsGet(args, 0).o) THEN 1 ELSE 2

\* The interval argument is present and not undefined.
IntervalGiven(args) ==
    /\ FirstIsObject(args)
    /\ ArgsGet(args, IntervalIndex(args)).t \notin {"None", "Undefined"}

\* The timer the claim describes for a call.
ClaimedTimer(registry, op, args) ==
    [id |-> Len(registry) + 1,
     callback |->
         IF IsExecutable(ArgsGet(args, 0).o)
         THEN TimerCallbackFunction(ArgsGet(args, 0).o)
         ELSE TimerCallbackMethod(ArgsGet(args, 0).o,
                  CoerceToString(UnwrapOrUndefined(ArgsGet(args, 1))).val),
     interval |-> CoerceToI32(ArgsGet(args, IntervalIndex(args))).val,
     params |-> SubSeq(args, IntervalIndex(args) + 2, Len(args)),
     is_timeout |-> (op = "set_timeout")]

\* The method name of a non-callable first argument cannot be coerced.
MethodNameFails(args) ==
    /\ FirstIsObject(args)
    /\ ~IsExecutable(ArgsGet(args, 0).o)
    /\ ~CoerceToString(UnwrapOrUndefined(ArgsGet(args, 1))).ok

\* The interval is given and cannot be coerced.
IntervalFails(args) ==
    /\ IntervalGiven(args)
    /\ ~CoerceToI32(ArgsGet(args, IntervalIndex(args))).ok

\* C23 as stated: create_timer registers exactly one timer and returns its
\* id only when the first argument is an object and the interval argument is
\* present and not undefined (interval at index 1 and parameters from index 2
\* for a callable object; method name at 1, interval at 2, parameters from 3
\* for any other object); in every other case it returns Undefined and the
\* registry is unchanged; setTimeout registers with is_timeout true,
\* setInterval with false.
C23_Claimed ==
    [][(ret'.op \in TimerOps) =>
          /\ (timers' # timers) =>
                /\ IntervalGiven(ret'.in.args)
                /\ timers' = Append(timers, ClaimedTimer(timers, ret'.op, ret'.in.args))
                /\ ret'.ok
                /\ ret'.val = ValueNumber(Len(timers) + 1)
          /\ ~IntervalGiven(ret'.in.args) =>
                /\ ret'.ok
                /\ ret'.val = ValueUndefined
                /\ timers' = timers]_vars

\* C23, amended: as stated when no coercion fails.  When the coercion of the
\* method name (made for every non-callable object, before the interval is
\* looked at) or of a given interval fails, the call returns that error and
\* the registry is unchanged; a call with the first argument an object, the
\* interval given and no failing coercion always registers.
C23_CreateTimer ==
    [][(ret'.op \in TimerOps) =>
          /\ (MethodNameFails(ret'.in.args) \/ IntervalFails(ret'.in.args)) =>
                /\ ~ret'.ok
                /\ timers' = timers
          /\ (/\ ~MethodNameFails(ret'.in.args)
              /\ ~IntervalFails(ret'.in.args)
              /\ IntervalGiven(ret'.in.args)) =>
                /\ timers' = Append(timers, ClaimedTimer(timers, ret'.op, ret'.in.args))
                /\ ret'.ok
                /\ ret'.val = ValueNumber(Len(timers) + 1)
          /\ (/\ ~MethodNameFails(ret'.in.args)
              /\ ~IntervalGiven(ret'.in.args)) =>
                /\ ret'.ok
                /\ ret'.val = ValueUndefined
                /\ timers' = timers]_vars

\* setTimeout on a plain object registered a method timer: name at index 1,
\* interval at index 2, one parameter from index 3.
C23_Witness ==
    /\ ret.op = "set_timeout"
    /\ ret.ok
    /\ ret.val = ValueNumber(1)
    /\ ret.in.args = <<TimerPlain, ValueString("tick"), ValueNumber(40), ValueNumber(40)>>
    /\ Len(timers) = 1
    /\ timers[1].callback = TimerCallbackMethod(TimerPlain.o, "tick")
    /\ timers[1].interval = 40
    /\ timers[1].params = <<ValueNumber(40)>>
    /\ timers[1].is_timeout

=============================================================================
